---- MODULE Spec2Model ----
(***************************************************************************)
(* FSAChunkStore (src/unnamed/part_001): a chunk store over the File       *)
(* System Access API.  The store object, the cache directory of per-chunk  *)
(* files, the logical files with their writable streams (swap files that   *)
(* are committed on close) and their File snapshots are the state; every   *)
(* asynchronous method is a task that advances by one step per I/O         *)
(* completion, so that tasks interleave at their await points.             *)
(***************************************************************************)
EXTENDS Integers, Sequences, FiniteSets, TLC

\* ------------------------------------------------------------------ bounds
\* chunkLength given to the constructor
CL == 3
\* chunk indices used by callers are 0..MaxIndex
MaxIndex == 2
\* payloads are MakeBuf(tag, n) for tag in 1..MaxTag
MaxTag == 2
\* number of calls that start a put, a cleanup or a close in one behaviour
MaxOps == 2
\* the same for the behaviours of callers that use plain arguments only
MaxDeep == 4
\* number of puts of callers that do not wait for each other
MaxConc == 3
\* number of asynchronous calls running at the same time
MaxInflight == 3
\* opts.length of the store without files that has a finite length
TotalLen == 5

\* most puts and cleanups made by callers that race
MaxRace == 3
MaxTwice == 3

\* most puts made by callers whose calls may meet on one chunk
MaxFirst == 2

\* most calls made by a caller that goes on putting after its close
MaxLate == 3

\* most files in the options given to the constructor
MaxFiles == 2

\* the file lists whose chunkMap is examined: at most MaxMapFiles files, each
\* of a length in 1..MaxFileLen
MaxMapFiles == 3
MaxFileLen == 5

\* lengths of the files of the store with files (offsets are derived)
FileLens == <<2, 3>>

Indices == 0..MaxIndex
Tags == 1..MaxTag

\* ------------------------------------------------------------ plain values
Min(a, b) == IF a < b THEN a ELSE b
Max(a, b) == IF a > b THEN a ELSE b

\* an option that the caller left out (opts.offset / opts.length undefined)
NoOpt == -9
\* a cache entry that does not exist in the directory
Absent == <<-1>>
\* the expectation of a get whose index has a put running
Unknown == <<-2>>
\* the NUL byte a write beyond the end of a file is padded with
Nul == 0

\* bytes of a payload: distinct per tag and per position
MakeBuf(tag, n) == [k \in 1..n |-> tag * 10 + k]

Zeros(n) == [k \in 1..n |-> Nul]

\* Blob.prototype.slice / Uint8Array.prototype.slice: bounds are clamped, a
\* negative bound counts from the end
Slice(s, a, b) ==
  LET n == Len(s)
      rel(x) == IF x < 0 THEN Max(n + x, 0) ELSE Min(x, n)
      st == rel(a)
      span == Max(rel(b) - st, 0)
  IN SubSeq(s, st + 1, st + span)

\* FileSystemWritableFileStream.write({type:'write', position, data}) on the
\* swap file: a position beyond the end pads with NUL bytes
WriteAt(content, pos, data) ==
  LET padded == IF pos > Len(content) THEN content \o Zeros(pos - Len(content)) ELSE content
      n == Max(Len(padded), pos + Len(data))
  IN [k \in 1..n |-> IF k > pos /\ k <= pos + Len(data) THEN data[k - pos] ELSE padded[k]]

RECURSIVE Sum(_)
Sum(s) == IF s = <<>> THEN 0 ELSE s[1] + Sum(Tail(s))

RECURSIVE Concat(_)
Concat(ss) == IF ss = <<>> THEN <<>> ELSE ss[1] \o Concat(Tail(ss))

\* ----------------------------------------------------------- constructor
\* this.length when no finite length is configured
Infinity == -1
\* this.lastChunkIndex when the length is Infinity (the field stays undefined)
Undefined == -2

\* the stores that are constructed: without files and unbounded, without
\* files and with opts.length (a last chunk that is shorter, one that is
\* not), with files (and rootDir)
Configs ==
  { [hasFiles |-> FALSE, lens |-> <<>>, optLength |-> 0],
    [hasFiles |-> FALSE, lens |-> <<>>, optLength |-> TotalLen],
    [hasFiles |-> FALSE, lens |-> <<>>, optLength |-> 2 * CL],
    [hasFiles |-> TRUE, lens |-> FileLens, optLength |-> 0] }

\* file.offset = prevFile.offset + prevFile.length, 0 for the first file
FileOffset(lens, i) == Sum(SubSeq(lens, 1, i - 1))

\* this.length
TotalLength(c) ==
  IF c.hasFiles THEN Sum(c.lens)
  ELSE IF c.optLength = 0 THEN Infinity ELSE c.optLength

LastChunkLengthMutant(c) ==
  IF TotalLength(c) = Infinity THEN Undefined
  ELSE TotalLength(c) % CL

\* this.lastChunkLength = this.length % this.chunkLength || this.chunkLength
LastChunkLength(c) ==
  IF TotalLength(c) = Infinity THEN Undefined
  ELSE IF TotalLength(c) % CL = 0 THEN CL ELSE TotalLength(c) % CL

\* this.lastChunkIndex = Math.ceil(this.length / this.chunkLength) - 1
LastChunkIndex(c) ==
  IF TotalLength(c) = Infinity THEN Undefined
  ELSE ((TotalLength(c) + CL - 1) \div CL) - 1

MapEntryMutant(lens, f, i) ==
  LET fileStart == FileOffset(lens, f)
      chunkStart == i * CL
  IN [file |-> f,
      from |-> IF fileStart < chunkStart THEN 0 ELSE fileStart - chunkStart,
      to |-> CL,
      offset |-> IF fileStart > chunkStart THEN 0 ELSE chunkStart - fileStart]

\* one entry { from, to, offset, file } of chunkMap[i] for file f
MapEntry(lens, f, i) ==
  LET fileStart == FileOffset(lens, f)
      fileEnd == fileStart + lens[f]
      chunkStart == i * CL
      chunkEnd == chunkStart + CL
  IN [file |-> f,
      from |-> IF fileStart < chunkStart THEN 0 ELSE fileStart - chunkStart,
      to |-> IF fileEnd > chunkEnd THEN CL ELSE fileEnd - chunkStart,
      offset |-> IF fileStart > chunkStart THEN 0 ELSE chunkStart - fileStart]

FileCoversChunkMutant(lens, f, i) ==
  LET fileStart == FileOffset(lens, f)
  IN fileStart \div CL <= i

\* does the loop over firstChunk..lastChunk of file f reach chunk i
FileCoversChunk(lens, f, i) ==
  LET fileStart == FileOffset(lens, f)
      fileEnd == fileStart + lens[f]
  IN /\ fileStart \div CL <= i
     /\ i <= (fileEnd - 1) \div CL

\* chunkMap[i]: the entries in the order the files were mapped; <<>> stands
\* for a chunkMap[i] that was never assigned
ChunkMap(c, i) ==
  LET all == [f \in 1..Len(c.lens) |-> f]
      hit == SelectSeq(all, LAMBDA f: FileCoversChunk(c.lens, f, i))
  IN [k \in 1..Len(hit) |-> MapEntry(c.lens, hit[k], i)]

\* the options as the caller gives them: rootDir given or not, files given
\* or not, each file with or without path and with a length or none
\* (Undefined), length given or not (Undefined)
RawFiles == [path : BOOLEAN, length : {Undefined} \cup (1..CL)]
RawConfigs ==
  [rootDir : BOOLEAN, filesGiven : BOOLEAN,
   files : UNION {[1..n -> RawFiles] : n \in 0..MaxFiles},
   length : {Undefined} \cup (0..TotalLen)]

\* the error of the first file that files.map rejects, or "none"
RECURSIVE FilesError(_)
FilesError(files) ==
  IF files = <<>> THEN "none"
  ELSE IF ~files[1].path THEN "ErrPath"
  ELSE IF files[1].length = Undefined THEN "ErrFileLength"
  ELSE FilesError(Tail(files))

\* if (opts.files && opts.rootDir)
ConstructChecksFiles(raw) == raw.filesGiven /\ raw.rootDir

\* new FSAChunkStore(chunkLength, opts): the error thrown, or "ok" when a
\* store is returned
Construct(raw) ==
  IF ConstructChecksFiles(raw)
    THEN IF FilesError(raw.files) # "none" THEN FilesError(raw.files)
         ELSE IF raw.length # Undefined
                 /\ raw.length # Sum([k \in DOMAIN raw.files |-> raw.files[k].length])
           THEN "ErrTotal"
         ELSE "ok"
    ELSE "ok"

\* ------------------------------------------------------------------ state
VARIABLES
  cfg,        \* the options the store was constructed with (never changes)
  dirs,       \* which directories exist: store is rootDir/<name>, cache is chunks/<name>
  closing,    \* this.closing; chunkMap and directoryMap are undefined once set
  closed,     \* this.closed
  chunks,     \* this.chunks: is a handle memoized for the index
  chunkFiles, \* the cache directory: content of the file named index, or Absent
  fileData,   \* the committed content of each logical file
  blob,       \* file.blob: the File snapshot of each logical file
  streams,    \* writable streams: <<0, f>> is file.stream of f, <<c, f>> one that cleanup task c closes
  ops,        \* the running asynchronous calls, by slot
  done,       \* the completion that was delivered by the last step, if any
  lastPut,    \* history: the payload of the last put of the index that reported success
  nOps        \* history: number of puts, cleanups and closes started so far

vars == <<cfg, dirs, closing, closed, chunks, chunkFiles, fileData, blob, streams, ops, done, lastPut, nOps>>

Files == 1..Len(cfg.lens)
Slots == 1..MaxInflight

NoDone == [kind |-> "none", index |-> 0, buf |-> <<>>, off |-> NoOpt, len |-> NoOpt,
           res |-> "none", data |-> <<>>, exp |-> <<>>, via |-> "none"]

\* what a callback is called with (res, data), with the call it belongs to;
\* exp and via are history: what the get was expected to return in full when
\* it was made, and the branch of _get that served it
Completion(kind, index, buf, off, len, res, data, exp) ==
  [kind |-> kind, index |-> index, buf |-> buf, off |-> off, len |-> len,
   res |-> res, data |-> data, exp |-> exp, via |-> "none"]

\* a task: pc is the position of the call itself, sub the position of the
\* task it started beside it (put: chunkWrite, cleanup/close: clearChunks)
Task(kind, index, buf, off, len, pc, sub, wait, exp) ==
  [kind |-> kind, index |-> index, buf |-> buf, off |-> off, len |-> len,
   pc |-> pc, sub |-> sub, wait |-> wait, todo |-> {}, settled |-> FALSE,
   exp |-> exp, snap |-> <<>>, stale |-> FALSE]

\* the slot a new call takes
FreeSlot == CHOOSE s \in Slots : s \notin DOMAIN ops /\ \A t \in Slots : t \notin DOMAIN ops => s <= t

\* nothing of the task is left to run: it leaves the table (a cleanup that
\* has thrown stays until the streams it took are closed)
Finished(t) ==
  /\ t.settled
  /\ t.kind = "put" => t.sub \in {"done", "failed"} /\ t.wait = {}
  /\ t.pc # "thrown"

\* the table with task o replaced by t, or without it once it is finished
WithTask(table, o, t) ==
  IF Finished(t)
    THEN [s \in DOMAIN table \ {o} |-> table[s]]
    ELSE [s \in DOMAIN table \cup {o} |-> IF s = o THEN t ELSE table[s]]

TypeOK ==
  /\ cfg \in Configs
  /\ dirs \in [store : BOOLEAN, cache : BOOLEAN]
  /\ closing \in BOOLEAN /\ closed \in BOOLEAN
  /\ chunks \in [Indices -> BOOLEAN]
  /\ DOMAIN chunkFiles = Indices
  /\ DOMAIN fileData = Files
  /\ DOMAIN blob = Files
  /\ DOMAIN ops \subseteq Slots
  /\ DOMAIN streams \subseteq (0..MaxInflight) \X Files
  /\ nOps \in Nat

Init ==
  /\ cfg \in Configs
  /\ dirs = [store |-> TRUE, cache |-> cfg.hasFiles]
  /\ closing = FALSE
  /\ closed = FALSE
  /\ chunks = [i \in Indices |-> FALSE]
  /\ chunkFiles = [i \in Indices |-> Absent]
  /\ fileData = [f \in Files |-> <<>>]
  /\ blob = [f \in Files |-> [ready |-> TRUE, data |-> <<>>, fresh |-> TRUE]]
  /\ streams = <<>>
  /\ ops = <<>>
  /\ done = NoDone
  /\ lastPut = [i \in Indices |-> <<>>]
  /\ nOps = 0

\* this.chunkMap = undefined; this.directoryMap = undefined: close() makes
\* both assignments right after this.closing = true
MappingReleased == closing

\* -------------------------------------------------------------------- put
\* _put, the checks before anything is started: the error thrown, or "none"
PutReject(index, buf) ==
  IF closed THEN "ErrClosed"
  ELSE IF index = LastChunkIndex(cfg) /\ Len(buf) # LastChunkLength(cfg) THEN "ErrLength"
  ELSE IF index # LastChunkIndex(cfg) /\ Len(buf) # CL THEN "ErrLength"
  ELSE "none"

TargetWritesMutant(index, buf) ==
  LET targets == ChunkMap(cfg, index)
  IN [k \in 1..Len(targets) |->
        [file |-> targets[k].file, pos |-> targets[k].offset, data |-> buf]]

\* the write each entry of chunkMap[index] asks of its file
TargetWrites(index, buf) ==
  LET targets == ChunkMap(cfg, index)
  IN [k \in 1..Len(targets) |->
        [file |-> targets[k].file, pos |-> targets[k].offset,
         data |-> Slice(buf, targets[k].from, targets[k].to)]]

\* targets.map(...) of put o: a file without stream gets one (createWritable
\* is then pending), and the write is handed to the stream of the file: it
\* waits in line while the stream is being created, and goes to the swap
\* file of a stream that is open
PutStreams(o, ws) ==
  LET files == {ws[k].file : k \in DOMAIN ws}
      wOf(f) == ws[CHOOSE k \in DOMAIN ws : ws[k].file = f]
      item(f) == [op |-> o, pos |-> wOf(f).pos, data |-> wOf(f).data]
  IN [key \in DOMAIN streams \cup {<<0, f>> : f \in files} |->
        IF key[1] = 0 /\ key[2] \in files
          THEN IF key \notin DOMAIN streams
                 THEN [open |-> FALSE, swap |-> <<>>, queue |-> <<item(key[2])>>]
               ELSE IF ~streams[key].open
                 THEN [streams[key] EXCEPT !.queue = Append(@, item(key[2]))]
               ELSE [streams[key] EXCEPT !.swap = WriteAt(@, wOf(key[2]).pos, wOf(key[2]).data)]
          ELSE streams[key]]

\* gets of the index that are running no longer know what to expect
Disturb(table, index) ==
  [s \in DOMAIN table |->
     IF table[s].kind = "get" /\ table[s].index = index
       THEN [table[s] EXCEPT !.exp = Unknown] ELSE table[s]]

PutThrowsFirstMutant(rej) == rej = "ErrClosed"

\* the checks of _put come before chunkWrite is started: a put that they
\* reject has started nothing
PutThrowsFirst(rej) == rej # "none"

\* put(index, buf) up to its first await
Put(index, buf) ==
  LET rej == PutReject(index, buf)
      o == FreeSlot
      sub == IF chunks[index] THEN "create" ELSE "handle"
      ws == TargetWrites(index, buf)
  IN
  IF PutThrowsFirst(rej)
    THEN /\ done' = Completion("put", index, buf, NoOpt, NoOpt, rej, <<>>, <<>>)
         /\ UNCHANGED <<cfg, dirs, closing, closed, chunks, chunkFiles, fileData, blob, streams, ops, lastPut, nOps>>
    ELSE
      /\ Cardinality(DOMAIN ops) < MaxInflight
      /\ nOps' = nOps + 1
      /\ UNCHANGED <<cfg, dirs, closing, closed, chunks, chunkFiles, fileData, blob, lastPut>>
      /\ IF rej # "none"
           THEN \* a check that throws once chunkWrite runs
             /\ ops' = WithTask(Disturb(ops, index), o,
                                [Task("put", index, buf, NoOpt, NoOpt, "run", sub, {}, <<>>)
                                   EXCEPT !.settled = TRUE])
             /\ done' = Completion("put", index, buf, NoOpt, NoOpt, rej, <<>>, <<>>)
             /\ UNCHANGED streams
         ELSE IF ~cfg.hasFiles
           THEN \* return chunkWrite
             /\ ops' = WithTask(Disturb(ops, index), o,
                                Task("put", index, buf, NoOpt, NoOpt, "run", sub, {}, <<>>))
             /\ done' = NoDone
             /\ UNCHANGED streams
         ELSE IF MappingReleased \/ Len(ws) = 0
           THEN \* this.chunkMap[index] throws or is undefined: chunkWrite runs on
             /\ ops' = WithTask(Disturb(ops, index), o,
                                [Task("put", index, buf, NoOpt, NoOpt, "run", sub, {}, <<>>)
                                   EXCEPT !.settled = TRUE])
             /\ done' = Completion("put", index, buf, NoOpt, NoOpt,
                                   IF MappingReleased THEN "ErrType" ELSE "ErrNoFiles", <<>>, <<>>)
             /\ UNCHANGED streams
         ELSE
             /\ streams' = PutStreams(o, ws)
             /\ ops' = WithTask(Disturb(ops, index), o,
                                Task("put", index, buf, NoOpt, NoOpt, "run", sub,
                                     {ws[k].file : k \in {j \in DOMAIN ws : ~streams'[<<0, ws[j].file>>].open}},
                                     <<>>))
             /\ done' = NoDone

\* a get that holds a File of the cache entry of index sees it modified
MarkStale(table, index) ==
  [s \in DOMAIN table |->
     IF table[s].kind = "get" /\ table[s].index = index /\ table[s].pc = "read"
       THEN [table[s] EXCEPT !.stale = TRUE] ELSE table[s]]

\* the directory behind this.chunksDirPromise exists: chunks/<name> when
\* files are used, the directory of the store itself otherwise
ChunksDirExists == IF cfg.hasFiles THEN dirs.cache ELSE dirs.store

\* a chunkWrite holds a writable stream on the cache entry of index: the
\* entry is locked, and removeEntry cannot take the lock it needs
Locked(index) ==
  \E s \in DOMAIN ops : ops[s].kind = "put" /\ ops[s].index = index /\ ops[s].sub = "close"

\* _getChunkHandle of chunkWrite: getFileHandle(index, {create: true}), then
\* this.chunks[index] = chunk; NotFoundError when the directory is gone
CwHandle(o) ==
  /\ o \in DOMAIN ops /\ ops[o].kind = "put" /\ ops[o].sub = "handle"
  /\ IF ChunksDirExists
       THEN /\ chunkFiles' = IF chunkFiles[ops[o].index] = Absent
                               THEN [chunkFiles EXCEPT ![ops[o].index] = <<>>] ELSE chunkFiles
            /\ chunks' = [chunks EXCEPT ![ops[o].index] = TRUE]
            /\ ops' = WithTask(ops, o, [ops[o] EXCEPT !.sub = "create"])
       ELSE /\ ops' = WithTask(ops, o, [ops[o] EXCEPT !.sub = "failed"])
            /\ UNCHANGED <<chunkFiles, chunks>>
  /\ done' = NoDone
  /\ UNCHANGED <<cfg, dirs, closing, closed, fileData, blob, streams, lastPut, nOps>>

\* chunk.createWritable({keepExistingData: false}): NotFoundError when the
\* entry was removed; stream.write(buf) then fills the swap file
CwCreate(o) ==
  /\ o \in DOMAIN ops /\ ops[o].kind = "put" /\ ops[o].sub = "create"
  /\ ops' = WithTask(ops, o, [ops[o] EXCEPT !.sub =
                IF chunkFiles[ops[o].index] = Absent THEN "failed" ELSE "close"])
  /\ done' = NoDone
  /\ UNCHANGED <<cfg, dirs, closing, closed, chunks, chunkFiles, fileData, blob, streams, lastPut, nOps>>

CwCloseMutant(o) ==
  /\ o \in DOMAIN ops /\ ops[o].kind = "put" /\ ops[o].sub = "close"
  /\ chunkFiles' = [chunkFiles EXCEPT ![ops[o].index] = <<>>]
  /\ ops' = WithTask(MarkStale(ops, ops[o].index), o, [ops[o] EXCEPT !.sub = "done"])
  /\ done' = NoDone
  /\ UNCHANGED <<cfg, dirs, closing, closed, chunks, fileData, blob, streams, lastPut, nOps>>

\* stream.close() of chunkWrite: the swap file replaces the cache entry
CwClose(o) ==
  /\ o \in DOMAIN ops /\ ops[o].kind = "put" /\ ops[o].sub = "close"
  /\ chunkFiles' = [chunkFiles EXCEPT ![ops[o].index] = ops[o].buf]
  /\ ops' = WithTask(MarkStale(ops, ops[o].index), o, [ops[o] EXCEPT !.sub = "done"])
  /\ done' = NoDone
  /\ UNCHANGED <<cfg, dirs, closing, closed, chunks, fileData, blob, streams, lastPut, nOps>>

RECURSIVE ApplyWrites(_, _)
ApplyWrites(content, queue) ==
  IF queue = <<>> THEN content
  ELSE ApplyWrites(WriteAt(content, queue[1].pos, queue[1].data), Tail(queue))

\* createWritable({keepExistingData: true}) of a logical file completes: the
\* swap file starts as a copy of the file, and the writes that waited for
\* the stream are made in the order they were asked for
OpenStream(key) ==
  /\ key \in DOMAIN streams /\ ~streams[key].open
  /\ streams' = [streams EXCEPT ![key] =
                   [open |-> TRUE, swap |-> ApplyWrites(fileData[key[2]], streams[key].queue),
                    queue |-> <<>>]]
  /\ LET writers == {streams[key].queue[k].op : k \in DOMAIN streams[key].queue}
         upd == [s \in DOMAIN ops |->
                   IF s \in writers THEN [ops[s] EXCEPT !.wait = @ \ {key[2]}] ELSE ops[s]]
     IN ops' = [s \in {t \in DOMAIN upd : ~Finished(upd[t])} |-> upd[s]]
  /\ done' = NoDone
  /\ UNCHANGED <<cfg, dirs, closing, closed, chunks, chunkFiles, fileData, blob, lastPut, nOps>>

PutSettleMutant(o) ==
  /\ o \in DOMAIN ops /\ ops[o].kind = "put" /\ ~ops[o].settled
  /\ ops[o].sub \in {"failed", "done"}
  /\ LET res == IF ops[o].sub = "failed" THEN "ErrIO" ELSE "ok"
     IN /\ done' = Completion("put", ops[o].index, ops[o].buf, NoOpt, NoOpt, res, <<>>, <<>>)
        /\ lastPut' = IF res = "ok" THEN [lastPut EXCEPT ![ops[o].index] = ops[o].buf] ELSE lastPut
  /\ ops' = WithTask(ops, o, [ops[o] EXCEPT !.settled = TRUE])
  /\ UNCHANGED <<cfg, dirs, closing, closed, chunks, chunkFiles, fileData, blob, streams, nOps>>

\* Promise.all of put o settles and the callback is called: with null when
\* chunkWrite and every target write are done, with the error once one failed
PutSettle(o) ==
  /\ o \in DOMAIN ops /\ ops[o].kind = "put" /\ ~ops[o].settled
  /\ \/ ops[o].sub = "failed"
     \/ ops[o].sub = "done" /\ ops[o].wait = {}
  /\ LET res == IF ops[o].sub = "failed" THEN "ErrIO" ELSE "ok"
     IN /\ done' = Completion("put", ops[o].index, ops[o].buf, NoOpt, NoOpt, res, <<>>, <<>>)
        /\ lastPut' = IF res = "ok" THEN [lastPut EXCEPT ![ops[o].index] = ops[o].buf] ELSE lastPut
  /\ ops' = WithTask(ops, o, [ops[o] EXCEPT !.settled = TRUE])
  /\ UNCHANGED <<cfg, dirs, closing, closed, chunks, chunkFiles, fileData, blob, streams, nOps>>

\* -------------------------------------------------------------------- get
\* chunkLength of _get: the length of the chunk at index
ChunkLen(index) == IF index = LastChunkIndex(cfg) THEN LastChunkLength(cfg) ELSE CL

\* rangeFrom = opts.offset || 0
RangeFrom(off) == IF off = NoOpt \/ off = 0 THEN 0 ELSE off

\* rangeTo = opts.length ? rangeFrom + opts.length : chunkLength
RangeTo(index, off, len) ==
  IF len = NoOpt \/ len = 0 THEN ChunkLen(index) ELSE RangeFrom(off) + len

\* len = opts.length || chunkLength - rangeFrom
ReadLen(index, off, len) ==
  IF len = NoOpt \/ len = 0 THEN ChunkLen(index) - RangeFrom(off) ELSE len

\* the check of the requested range
RangeError(index, off, len) ==
  RangeFrom(off) < 0 \/ RangeFrom(off) < 0 \/ RangeTo(index, off, len) > ChunkLen(index)

\* targets.filter(({ from, to }) => to > rangeFrom && from < rangeTo)
GetTargets(index, off, len) ==
  SelectSeq(ChunkMap(cfg, index),
            LAMBDA e : e.to > RangeFrom(off) /\ e.from < RangeTo(index, off, len))

TargetPieceMutant(e, rangeFrom, rangeTo, data) ==
  Slice(data, e.offset, e.offset + e.to - e.from)

\* the part of the snapshot of its file that one target contributes:
\* blob.slice(offset, offset + to - from) after clipping to the range
TargetPiece(e, rangeFrom, rangeTo, data) ==
  LET to == IF e.to > rangeTo THEN rangeTo ELSE e.to
      offset == IF e.from < rangeFrom THEN e.offset + (rangeFrom - e.from) ELSE e.offset
      from == IF e.from < rangeFrom THEN rangeFrom ELSE e.from
  IN Slice(data, offset, offset + to - from)

\* what a get of index is expected to return in full: the payload of the
\* last put that reported success, unless a put of the index is running
Expect(index) ==
  IF \E s \in DOMAIN ops : ops[s].kind = "put" /\ ops[s].index = index
    THEN Unknown ELSE lastPut[index]

GetSyncMutant(index, off, len) ==
  IF RangeError(index, off, len) THEN "ErrRange"
  ELSE IF RangeFrom(off) = RangeTo(index, off, len) THEN "ok"
  ELSE IF ~cfg.hasFiles \/ chunks[index] THEN "none"
  ELSE IF closing THEN "ErrType"
  ELSE IF Len(ChunkMap(cfg, index)) = 0 THEN "ErrNoFiles"
  ELSE IF Len(GetTargets(index, off, len)) = 0 THEN "ErrNoFiles"
  ELSE "none"

\* the outcome of _get when it ends before its first await, or "none"
GetSync(index, off, len) ==
  IF closed THEN "ErrClosed"
  ELSE IF RangeError(index, off, len) THEN "ErrRange"
  ELSE IF RangeFrom(off) = RangeTo(index, off, len) THEN "ok"
  ELSE IF ~cfg.hasFiles \/ chunks[index] THEN "none"
  ELSE IF MappingReleased THEN "ErrType"
  ELSE IF Len(ChunkMap(cfg, index)) = 0 THEN "ErrNoFiles"
  ELSE IF Len(GetTargets(index, off, len)) = 0 THEN "ErrNoFiles"
  ELSE "none"

\* get(index, opts) up to its first await
Get(index, off, len) ==
  LET sync == GetSync(index, off, len)
      o == FreeSlot
      pc == IF ~cfg.hasFiles \/ chunks[index]
              THEN (IF chunks[index] THEN "getfile" ELSE "handle")
              ELSE "blobs"
  IN
  IF sync # "none"
    THEN /\ done' = Completion("get", index, <<>>, off, len, sync, <<>>, Expect(index))
         /\ UNCHANGED <<cfg, dirs, closing, closed, chunks, chunkFiles, fileData, blob, streams, ops, lastPut, nOps>>
    ELSE /\ Cardinality(DOMAIN ops) < MaxInflight
         /\ ops' = WithTask(ops, o, Task("get", index, <<>>, off, len, pc, "none", {}, Expect(index)))
         /\ done' = NoDone
         /\ UNCHANGED <<cfg, dirs, closing, closed, chunks, chunkFiles, fileData, blob, streams, lastPut, nOps>>

GetDone(o, res, data) ==
  /\ done' = [Completion("get", ops[o].index, <<>>, ops[o].off, ops[o].len, res, data, ops[o].exp)
                EXCEPT !.via = IF ops[o].pc = "blobs" THEN "files" ELSE "cache"]
  /\ ops' = [s \in DOMAIN ops \ {o} |-> ops[s]]

\* _getChunkHandle of _get: getFileHandle(index, {create: true}), then
\* this.chunks[index] = chunk; NotFoundError when the directory is gone
GetHandle(o) ==
  /\ o \in DOMAIN ops /\ ops[o].kind = "get" /\ ops[o].pc = "handle"
  /\ IF ChunksDirExists
       THEN /\ chunkFiles' = IF chunkFiles[ops[o].index] = Absent
                               THEN [chunkFiles EXCEPT ![ops[o].index] = <<>>] ELSE chunkFiles
            /\ chunks' = [chunks EXCEPT ![ops[o].index] = TRUE]
            /\ ops' = WithTask(ops, o, [ops[o] EXCEPT !.pc = "getfile"])
            /\ done' = NoDone
       ELSE /\ GetDone(o, "ErrIO", <<>>)
            /\ UNCHANGED <<chunkFiles, chunks>>
  /\ UNCHANGED <<cfg, dirs, closing, closed, fileData, blob, streams, lastPut, nOps>>

\* if (rangeFrom !== 0 || len !== chunkLength) file = file.slice(rangeFrom, len + rangeFrom)
CacheSlice(content, index, off, len) ==
  IF RangeFrom(off) # 0 \/ ReadLen(index, off, len) # ChunkLen(index)
    THEN Slice(content, RangeFrom(off), ReadLen(index, off, len) + RangeFrom(off))
    ELSE content

\* chunk.getFile(): the File is a snapshot of the cache entry (NotFoundError
\* when the entry was removed); file.slice(rangeFrom, len + rangeFrom)
\* unless the whole chunk is asked for
GetFile(o) ==
  /\ o \in DOMAIN ops /\ ops[o].kind = "get" /\ ops[o].pc = "getfile"
  /\ LET t == ops[o]
         content == chunkFiles[t.index]
     IN IF content = Absent
          THEN GetDone(o, "ErrIO", <<>>)
          ELSE /\ ops' = WithTask(ops, o, [t EXCEPT !.pc = "read", !.stale = FALSE,
                            !.snap = CacheSlice(content, t.index, t.off, t.len)])
               /\ done' = NoDone
  /\ UNCHANGED <<cfg, dirs, closing, closed, chunks, chunkFiles, fileData, blob, streams, lastPut, nOps>>

\* file.arrayBuffer(): the bytes of the snapshot; an empty result is the
\* error 'Index does not exist'.  Reading a File whose entry was modified
\* after the snapshot either fails (NotReadableError) or gives the snapshot
GetRead(o) ==
  /\ o \in DOMAIN ops /\ ops[o].kind = "get" /\ ops[o].pc = "read"
  /\ \/ GetDone(o, IF Len(ops[o].snap) = 0 THEN "ErrNotFound" ELSE "ok", ops[o].snap)
     \/ ops[o].stale /\ GetDone(o, "ErrIO", <<>>)
  /\ UNCHANGED <<cfg, dirs, closing, closed, chunks, chunkFiles, fileData, blob, streams, lastPut, nOps>>

\* the other branch of _get: every target awaits file.blob and slices it,
\* the pieces are joined in the order of chunkMap[index] and read
GetBlobs(o) ==
  /\ o \in DOMAIN ops /\ ops[o].kind = "get" /\ ops[o].pc = "blobs"
  /\ LET t == ops[o]
         targets == GetTargets(t.index, t.off, t.len)
         pieces == [k \in 1..Len(targets) |->
                      TargetPiece(targets[k], RangeFrom(t.off), RangeTo(t.index, t.off, t.len),
                                  blob[targets[k].file].data)]
         buf == Concat(pieces)
     IN /\ \A k \in 1..Len(targets) : blob[targets[k].file].ready
        /\ \/ GetDone(o, IF Len(buf) = 0 THEN "ErrNotFound" ELSE "ok", buf)
           \/ /\ \E k \in 1..Len(targets) : ~blob[targets[k].file].fresh
              /\ GetDone(o, "ErrIO", <<>>)
  /\ UNCHANGED <<cfg, dirs, closing, closed, chunks, chunkFiles, fileData, blob, streams, lastPut, nOps>>

\* ------------------------------------------------------- cleanup and close
\* cleanup() up to its first await, run by call c of the given kind: every
\* file.stream is taken off its file to be closed, clearChunks is started
StartCleanup(c, kind) ==
  /\ streams' = [key \in {<<IF k[1] = 0 THEN c ELSE k[1], k[2]>> : k \in DOMAIN streams} |->
                   IF key[1] = c THEN streams[<<0, key[2]>>] ELSE streams[key]]
  /\ ops' = WithTask(ops, c, Task(kind, 0, <<>>, NoOpt, NoOpt, "streams", "clear", {}, <<>>))
  /\ nOps' = nOps + 1
  /\ done' = NoDone

\* cleanup()
Cleanup ==
  IF closed \/ ~cfg.hasFiles
    THEN /\ done' = Completion("cleanup", 0, <<>>, NoOpt, NoOpt, "ok", <<>>, <<>>)
         /\ UNCHANGED <<cfg, dirs, closing, closed, chunks, chunkFiles, fileData, blob, streams, ops, lastPut, nOps>>
    ELSE /\ Cardinality(DOMAIN ops) < MaxInflight
         /\ StartCleanup(FreeSlot, "cleanup")
         /\ UNCHANGED <<cfg, dirs, closing, closed, chunks, chunkFiles, fileData, blob, lastPut>>

CloseRefusesMutant == closed

\* if (this.closing) return err(cb, 'Storage is closed')
CloseRefuses == closing

\* close(cb) up to its first await
Close ==
  IF CloseRefuses
    THEN /\ done' = Completion("close", 0, <<>>, NoOpt, NoOpt, "ErrAlreadyClosed", <<>>, <<>>)
         /\ UNCHANGED <<cfg, dirs, closing, closed, chunks, chunkFiles, fileData, blob, streams, ops, lastPut, nOps>>
  ELSE IF ~cfg.hasFiles
    THEN /\ closing' = TRUE
         /\ closed' = TRUE
         /\ done' = Completion("close", 0, <<>>, NoOpt, NoOpt, "ok", <<>>, <<>>)
         /\ UNCHANGED <<cfg, dirs, chunks, chunkFiles, fileData, blob, streams, ops, lastPut, nOps>>
    ELSE /\ Cardinality(DOMAIN ops) < MaxInflight
         /\ closing' = TRUE
         /\ StartCleanup(FreeSlot, "close")
         /\ UNCHANGED <<cfg, dirs, closed, chunks, chunkFiles, fileData, blob, lastPut>>

IsCleanup(o) == o \in DOMAIN ops /\ ops[o].kind \in {"cleanup", "close", "destroy"}

CleanupClearMutant(c) ==
  /\ IsCleanup(c) /\ ops[c].sub = "clear"
  /\ ops' = WithTask(ops, c, [ops[c] EXCEPT !.sub = "list"])
  /\ done' = NoDone
  /\ UNCHANGED <<cfg, dirs, closing, closed, chunks, chunkFiles, fileData, blob, streams, lastPut, nOps>>

\* clearChunks after await this.chunksDirPromise: this.chunks = []
CleanupClear(c) ==
  /\ IsCleanup(c) /\ ops[c].sub = "clear"
  /\ chunks' = [i \in Indices |-> FALSE]
  /\ ops' = WithTask(ops, c, [ops[c] EXCEPT !.sub = "list"])
  /\ done' = NoDone
  /\ UNCHANGED <<cfg, dirs, closing, closed, chunkFiles, fileData, blob, streams, lastPut, nOps>>

\* storageDir.keys(): the entries of the cache directory that the loop visits
CleanupList(c) ==
  /\ IsCleanup(c) /\ ops[c].sub = "list"
  /\ LET todo == {i \in Indices : chunkFiles[i] # Absent}
     IN ops' = WithTask(ops, c, [ops[c] EXCEPT !.todo = todo,
                                   !.sub = IF todo = {} THEN "mkdir" ELSE "remove"])
  /\ done' = NoDone
  /\ UNCHANGED <<cfg, dirs, closing, closed, chunks, chunkFiles, fileData, blob, streams, lastPut, nOps>>

\* storageDir.removeEntry(key): clearChunks fails with NotFoundError when
\* the entry is no longer there, with NoModificationAllowedError when a
\* writable stream is open on it
CleanupRemove(c, k) ==
  /\ IsCleanup(c) /\ ops[c].sub = "remove" /\ k \in ops[c].todo
  /\ IF chunkFiles[k] = Absent \/ Locked(k)
       THEN /\ ops' = WithTask(ops, c, [ops[c] EXCEPT !.sub = "failed"])
            /\ UNCHANGED chunkFiles
       ELSE /\ chunkFiles' = [chunkFiles EXCEPT ![k] = Absent]
            /\ ops' = WithTask(MarkStale(ops, k), c,
                               [ops[c] EXCEPT !.todo = @ \ {k},
                                              !.sub = IF ops[c].todo = {k} THEN "mkdir" ELSE "remove"])
  /\ done' = NoDone
  /\ UNCHANGED <<cfg, dirs, closing, closed, chunks, fileData, blob, streams, lastPut, nOps>>

\* this.chunksDirPromise = this._getChunksDirHandle(); await it: the cache
\* directory itself was not removed, so this finds it again
CleanupMkdir(c) ==
  /\ IsCleanup(c) /\ ops[c].sub = "mkdir"
  /\ ops' = WithTask(ops, c, [ops[c] EXCEPT !.sub = "done"])
  /\ done' = NoDone
  /\ UNCHANGED <<cfg, dirs, closing, closed, chunks, chunkFiles, fileData, blob, streams, lastPut, nOps>>

\* stream.close() of a stream that a cleanup took off its file: the swap
\* file replaces the logical file, and a snapshot of the file is out of date
CloseStream(key) ==
  /\ key \in DOMAIN streams /\ key[1] # 0 /\ streams[key].open
  /\ fileData' = [fileData EXCEPT ![key[2]] = streams[key].swap]
  /\ blob' = [blob EXCEPT ![key[2]].fresh = ~blob[key[2]].ready]
  /\ streams' = [k \in DOMAIN streams \ {key} |-> streams[k]]
  /\ done' = NoDone
  /\ UNCHANGED <<cfg, dirs, closing, closed, chunks, chunkFiles, ops, lastPut, nOps>>

CloseStreamFailMutant(key) ==
  /\ key \in DOMAIN streams /\ key[1] \in DOMAIN ops /\ streams[key].open
  /\ ops[key[1]].kind = "cleanup" /\ ops[key[1]].pc = "streams"
  /\ streams' = [k \in {j \in DOMAIN streams : j[1] # key[1]} |-> streams[k]]
  /\ ops' = [ops EXCEPT ![key[1]].pc = "thrown", ![key[1]].settled = TRUE]
  /\ done' = Completion("cleanup", 0, <<>>, NoOpt, NoOpt, "ErrIO", <<>>, <<>>)
  /\ UNCHANGED <<cfg, dirs, closing, closed, chunks, chunkFiles, fileData, blob, lastPut, nOps>>

\* stream.close() of a stream that a cleanup() took off its file is rejected
\* by the backend: nothing is committed and the stream is gone.  Promise.all
\* rejects with the first failure and cleanup() throws at that await: its
\* promise is rejected, the snapshots are not refreshed, and clearChunks and
\* the closes of the other streams go on without it
CloseStreamFail(key) ==
  /\ key \in DOMAIN streams /\ key[1] \in DOMAIN ops /\ streams[key].open
  /\ ops[key[1]].kind = "cleanup" /\ ops[key[1]].pc = "streams"
  /\ streams' = [k \in DOMAIN streams \ {key} |-> streams[k]]
  /\ ops' = [ops EXCEPT ![key[1]].pc = "thrown", ![key[1]].settled = TRUE]
  /\ done' = Completion("cleanup", 0, <<>>, NoOpt, NoOpt, "ErrIO", <<>>, <<>>)
  /\ UNCHANGED <<cfg, dirs, closing, closed, chunks, chunkFiles, fileData, blob, lastPut, nOps>>

\* nothing of a cleanup() that has thrown is left to run: clearChunks has
\* ended and the streams it took are closed
CleanupGone(c) ==
  /\ c \in DOMAIN ops /\ ops[c].kind = "cleanup" /\ ops[c].pc = "thrown"
  /\ ops[c].sub \in {"done", "failed"}
  /\ \A key \in DOMAIN streams : key[1] # c
  /\ ops' = [s \in DOMAIN ops \ {c} |-> ops[s]]
  /\ done' = NoDone
  /\ UNCHANGED <<cfg, dirs, closing, closed, chunks, chunkFiles, fileData, blob, streams, lastPut, nOps>>

CleanupBlobsMutant(c) ==
  /\ IsCleanup(c) /\ ops[c].pc = "streams"
  /\ \A key \in DOMAIN streams : key[1] # c
  /\ ops' = WithTask(ops, c, [ops[c] EXCEPT !.pc = "wait"])
  /\ done' = NoDone
  /\ UNCHANGED <<cfg, dirs, closing, closed, chunks, chunkFiles, fileData, blob, streams, lastPut, nOps>>

\* after await Promise.all(streams): file.blob = this._createBlobReference(file.handle)
\* for every file; the call goes on to await clearChunks
CleanupBlobs(c) ==
  /\ IsCleanup(c) /\ ops[c].pc = "streams"
  /\ \A key \in DOMAIN streams : key[1] # c
  /\ blob' = [f \in Files |-> [ready |-> FALSE, data |-> <<>>, fresh |-> TRUE]]
  /\ ops' = WithTask(ops, c, [ops[c] EXCEPT !.pc = "wait"])
  /\ done' = NoDone
  /\ UNCHANGED <<cfg, dirs, closing, closed, chunks, chunkFiles, fileData, streams, lastPut, nOps>>

\* _createBlobReference: (await handle).getFile() takes the snapshot
ResolveBlob(f) ==
  /\ f \in Files /\ ~blob[f].ready
  /\ blob' = [blob EXCEPT ![f] = [ready |-> TRUE, data |-> fileData[f], fresh |-> TRUE]]
  /\ done' = NoDone
  /\ UNCHANGED <<cfg, dirs, closing, closed, chunks, chunkFiles, fileData, streams, ops, lastPut, nOps>>

\* await clearChunks ends cleanup().  In close() this.closed = true and the
\* callback follow; in destroy() the callback given to close() goes on to
\* remove the directory of the store.  When clearChunks failed the promise
\* of cleanup() is rejected ("ErrIO"), and so is the promise of close()
\* ("Rejected"): close() stops before this.closed = true and never calls
\* its callback, so that a destroy() reports nothing at all
CleanupSettle(c) ==
  /\ IsCleanup(c) /\ ops[c].pc = "wait" /\ ops[c].sub \in {"done", "failed"}
  /\ LET t == ops[c]
         ok == t.sub = "done"
         res == IF ok THEN "ok" ELSE IF t.kind = "close" THEN "Rejected" ELSE "ErrIO"
     IN /\ closed' = IF t.kind \in {"close", "destroy"} /\ ok THEN TRUE ELSE closed
        /\ IF t.kind = "destroy"
             THEN /\ done' = NoDone
                  /\ ops' = IF ok THEN WithTask(ops, c, [t EXCEPT !.pc = "rmroot"])
                             ELSE [s \in DOMAIN ops \ {c} |-> ops[s]]
             ELSE /\ done' = Completion(t.kind, 0, <<>>, NoOpt, NoOpt, res, <<>>, <<>>)
                  /\ ops' = [s \in DOMAIN ops \ {c} |-> ops[s]]
  /\ UNCHANGED <<cfg, dirs, closing, chunks, chunkFiles, fileData, blob, streams, lastPut, nOps>>

DestroyMutant ==
  IF ~cfg.hasFiles \/ closing
    THEN /\ Cardinality(DOMAIN ops) < MaxInflight
         /\ closing' = TRUE
         /\ closed' = TRUE
         /\ ops' = WithTask(ops, FreeSlot,
                            Task("destroy", 0, <<>>, NoOpt, NoOpt, "rmroot", "done", {}, <<>>))
         /\ nOps' = nOps + 1
         /\ done' = NoDone
         /\ UNCHANGED <<cfg, dirs, chunks, chunkFiles, fileData, blob, streams, lastPut>>
    ELSE /\ Cardinality(DOMAIN ops) < MaxInflight
         /\ closing' = TRUE
         /\ StartCleanup(FreeSlot, "destroy")
         /\ UNCHANGED <<cfg, dirs, closed, chunks, chunkFiles, fileData, blob, lastPut>>

\* destroy(cb) up to its first await: close() with a callback of its own
Destroy ==
  IF CloseRefuses
    THEN /\ done' = Completion("destroy", 0, <<>>, NoOpt, NoOpt, "ErrAlreadyClosed", <<>>, <<>>)
         /\ UNCHANGED <<cfg, dirs, closing, closed, chunks, chunkFiles, fileData, blob, streams, ops, lastPut, nOps>>
  ELSE IF ~cfg.hasFiles
    THEN /\ Cardinality(DOMAIN ops) < MaxInflight
         /\ closing' = TRUE
         /\ closed' = TRUE
         /\ ops' = WithTask(ops, FreeSlot,
                            Task("destroy", 0, <<>>, NoOpt, NoOpt, "rmroot", "done", {}, <<>>))
         /\ nOps' = nOps + 1
         /\ done' = NoDone
         /\ UNCHANGED <<cfg, dirs, chunks, chunkFiles, fileData, blob, streams, lastPut>>
    ELSE /\ Cardinality(DOMAIN ops) < MaxInflight
         /\ closing' = TRUE
         /\ StartCleanup(FreeSlot, "destroy")
         /\ UNCHANGED <<cfg, dirs, closed, chunks, chunkFiles, fileData, blob, lastPut>>

DestroyRemoveMutant(c) ==
  /\ c \in DOMAIN ops /\ ops[c].kind = "destroy" /\ ops[c].pc = "rmroot"
  /\ done' = Completion("destroy", 0, <<>>, NoOpt, NoOpt, "ok", <<>>, <<>>)
  /\ ops' = [s \in DOMAIN ops \ {c} |-> ops[s]]
  /\ UNCHANGED <<cfg, dirs, closing, closed, chunks, chunkFiles, fileData, blob, streams, lastPut, nOps>>

\* rootDir.removeEntry(this.name, {recursive: true}) in the callback that
\* destroy gave to close, then cb(null) or cb(err): the directory of the
\* store goes with all it holds (the logical files, and the chunks when
\* there are no files); it cannot be removed while a writable stream is
\* open on a file in it
DestroyRemove(c) ==
  /\ c \in DOMAIN ops /\ ops[c].kind = "destroy" /\ ops[c].pc = "rmroot"
  /\ LET busy == \/ \E key \in DOMAIN streams : streams[key].open
                 \/ ~cfg.hasFiles /\ \E i \in Indices : Locked(i)
     IN IF busy \/ ~dirs.store
          THEN /\ done' = Completion("destroy", 0, <<>>, NoOpt, NoOpt, "ErrIO", <<>>, <<>>)
               /\ UNCHANGED <<dirs, fileData, chunkFiles>>
          ELSE /\ done' = Completion("destroy", 0, <<>>, NoOpt, NoOpt, "ok", <<>>, <<>>)
               /\ dirs' = [dirs EXCEPT !.store = FALSE]
               /\ fileData' = [f \in Files |-> <<>>]
               /\ chunkFiles' = IF cfg.hasFiles THEN chunkFiles
                                 ELSE [i \in Indices |-> Absent]
  /\ ops' = [s \in DOMAIN ops \ {c} |-> ops[s]]
  /\ UNCHANGED <<cfg, closing, closed, chunks, blob, streams, lastPut, nOps>>

\* ---------------------------------------------------------- specifications
\* the arguments callers use
PutLens == 1..(CL + 1)
Offsets == {NoOpt} \cup (-1..(CL + 1))
Lengths == {NoOpt} \cup (0..(CL + 1))

\* no callback is running
Idle == done = NoDone

\* the callback that received the completion returns
Return ==
  /\ ~Idle
  /\ done' = NoDone
  /\ UNCHANGED <<cfg, dirs, closing, closed, chunks, chunkFiles, fileData, blob, streams, ops, lastPut, nOps>>

\* the caller waits for the completion of a call before it makes the next
Settled == Idle /\ \A s \in DOMAIN ops : ops[s].settled

\* one step of a running call or of the backend
Step ==
  \/ \E o \in Slots : Idle /\ CwHandle(o)
  \/ \E o \in Slots : Idle /\ CwCreate(o)
  \/ \E o \in Slots : Idle /\ CwClose(o)
  \/ \E o \in Slots : Idle /\ PutSettle(o)
  \/ \E key \in DOMAIN streams : Idle /\ OpenStream(key)
  \/ \E o \in Slots : Idle /\ GetHandle(o)
  \/ \E o \in Slots : Idle /\ GetFile(o)
  \/ \E o \in Slots : Idle /\ GetRead(o)
  \/ \E o \in Slots : Idle /\ GetBlobs(o)
  \/ Return

\* one step of a cleanup or of a close
CleanupStep ==
  \/ \E key \in DOMAIN streams : Idle /\ CloseStream(key)
  \/ \E c \in Slots : Idle /\ CleanupClear(c)
  \/ \E c \in Slots : Idle /\ CleanupList(c)
  \/ \E c \in Slots : \E k \in Indices : Idle /\ CleanupRemove(c, k)
  \/ \E c \in Slots : Idle /\ CleanupMkdir(c)
  \/ \E c \in Slots : Idle /\ CleanupBlobs(c)
  \/ \E f \in Files : Idle /\ ResolveBlob(f)
  \/ \E c \in Slots : Idle /\ CleanupSettle(c)

\* the step of a destroy that follows its close
DestroyStep == \E c \in Slots : Idle /\ DestroyRemove(c)

\* Spec: one caller that makes one call at a time, with any arguments
SeqPut ==
  /\ Settled
  /\ \E i \in Indices, tag \in Tags, n \in PutLens : Put(i, MakeBuf(tag, n))
  /\ nOps' <= MaxOps
SeqGet == Settled /\ \E i \in Indices, off \in Offsets, len \in Lengths : Get(i, off, len)
SeqCleanup == Settled /\ Cleanup /\ nOps' <= MaxOps
\* a close may also be called while a close is running
SeqClose == (Settled \/ (Idle /\ closing)) /\ Close /\ nOps' <= MaxOps
\* and so may a destroy
SeqDestroy == (Settled \/ (Idle /\ closing)) /\ Destroy /\ nOps' <= MaxOps

Next ==
  \/ SeqPut \/ SeqGet \/ SeqCleanup \/ SeqClose \/ SeqDestroy
  \/ Step \/ CleanupStep \/ DestroyStep

Spec == Init /\ [][Next]_vars

\* SpecDeep: one caller that makes one call at a time: puts of the length
\* the store asks for, gets without options, cleanups
DeepPut ==
  /\ Settled
  /\ \E i \in Indices, tag \in Tags : Put(i, MakeBuf(tag, ChunkLen(i)))
  /\ nOps' <= MaxDeep
DeepGet == Settled /\ \E i \in Indices : Get(i, NoOpt, NoOpt)
DeepCleanup == Settled /\ Cleanup /\ nOps' <= MaxDeep

NextDeep == DeepPut \/ DeepGet \/ DeepCleanup \/ Step \/ CleanupStep

SpecDeep == Init /\ [][NextDeep]_vars

\* SpecConc: callers that do not wait for each other: each index is put once
\* at most, with a payload of its own, and read at any time after its put
\* has reported success; no cleanup
ConcPut ==
  /\ Idle
  /\ \E i \in Indices :
       /\ lastPut[i] = <<>>
       /\ \A s \in DOMAIN ops : ~(ops[s].kind = "put" /\ ops[s].index = i)
       /\ Put(i, MakeBuf(1 + (i % MaxTag), ChunkLen(i)))
  /\ nOps' <= MaxConc
ConcGet == Idle /\ \E i \in Indices : lastPut[i] # <<>> /\ Get(i, NoOpt, NoOpt)

ConcStep ==
  \/ \E o \in Slots : Idle /\ CwHandle(o)
  \/ \E o \in Slots : Idle /\ CwCreate(o)
  \/ \E o \in Slots : Idle /\ CwClose(o)
  \/ \E o \in Slots : Idle /\ PutSettle(o)
  \/ \E key \in DOMAIN streams : Idle /\ OpenStream(key)
  \/ \E o \in Slots : Idle /\ GetFile(o)
  \/ \E o \in Slots : Idle /\ GetRead(o)
  \/ Return

NextConc == ConcPut \/ ConcGet \/ ConcStep

SpecConc == Init /\ [][NextConc]_vars

\* SpecShut: puts that nobody waits for, each index put once at most, and a
\* close called at any time after them
ShutPut == ~closing /\ ConcPut
ShutClose == Idle /\ Close /\ nOps' <= MaxConc

ShutStep ==
  \/ \E o \in Slots : Idle /\ CwHandle(o)
  \/ \E o \in Slots : Idle /\ CwCreate(o)
  \/ \E o \in Slots : Idle /\ CwClose(o)
  \/ \E o \in Slots : Idle /\ PutSettle(o)
  \/ \E key \in DOMAIN streams : Idle /\ OpenStream(key)
  \/ Return

NextShut == ShutPut \/ ShutClose \/ ShutStep \/ CleanupStep

SpecShut == Init /\ [][NextShut]_vars

\* SpecRace: a store with files; puts and cleanups are called at any time,
\* without waiting for the calls that are running; each chunk of the files
\* is put once at most; gets are made once every call has settled and
\* nothing is left running
InitRace == Init /\ cfg.hasFiles

NoGetRuns == \A s \in DOMAIN ops : ops[s].kind # "get"

RacePut ==
  /\ Idle /\ NoGetRuns
  /\ \E i \in Indices :
       /\ Len(ChunkMap(cfg, i)) > 0
       /\ lastPut[i] = <<>>
       /\ \A s \in DOMAIN ops : ~(ops[s].kind = "put" /\ ops[s].index = i)
       /\ Put(i, MakeBuf(1 + (i % MaxTag), ChunkLen(i)))
  /\ nOps' <= MaxRace
RaceCleanup == Idle /\ NoGetRuns /\ Cleanup /\ nOps' <= MaxRace
RaceGet ==
  /\ Idle /\ ops = <<>>
  /\ \E i \in Indices : lastPut[i] # <<>> /\ Get(i, NoOpt, NoOpt)

RaceStep ==
  \/ \E o \in Slots : Idle /\ CwHandle(o)
  \/ \E o \in Slots : Idle /\ CwCreate(o)
  \/ \E o \in Slots : Idle /\ CwClose(o)
  \/ \E o \in Slots : Idle /\ PutSettle(o)
  \/ \E key \in DOMAIN streams : Idle /\ OpenStream(key)
  \/ \E o \in Slots : Idle /\ GetFile(o)
  \/ \E o \in Slots : Idle /\ GetRead(o)
  \/ \E o \in Slots : Idle /\ GetBlobs(o)
  \/ Return

NextRace == RacePut \/ RaceCleanup \/ RaceGet \/ RaceStep \/ CleanupStep

SpecRace == InitRace /\ [][NextRace]_vars

\* SpecTwice: a store with files and one caller that waits for its puts and
\* gets, but calls cleanup() again while earlier cleanups are running as
\* well as after they have resolved
OnlyCleanupsRun == \A s \in DOMAIN ops : ops[s].kind = "cleanup"

TwicePut ==
  /\ Settled
  /\ \E i \in Indices :
       /\ Len(ChunkMap(cfg, i)) > 0
       /\ Put(i, MakeBuf(1 + (i % MaxTag), ChunkLen(i)))
  /\ nOps' <= MaxTwice
TwiceGet == Settled /\ \E i \in Indices : lastPut[i] # <<>> /\ Get(i, NoOpt, NoOpt)
TwiceCleanup == Idle /\ OnlyCleanupsRun /\ Cleanup /\ nOps' <= MaxTwice

NextTwice == TwicePut \/ TwiceGet \/ TwiceCleanup \/ RaceStep \/ CleanupStep

SpecTwice == InitRace /\ [][NextTwice]_vars

\* SpecCtor: the constructor alone, called with any options
InitCtor ==
  /\ cfg \in RawConfigs
  /\ cfg.filesGiven \/ cfg.files = <<>>
  /\ dirs = [store |-> FALSE, cache |-> FALSE]
  /\ closing = FALSE
  /\ closed = FALSE
  /\ chunks = [i \in Indices |-> FALSE]
  /\ chunkFiles = [i \in Indices |-> Absent]
  /\ fileData = <<>>
  /\ blob = <<>>
  /\ streams = <<>>
  /\ ops = <<>>
  /\ done = NoDone
  /\ lastPut = [i \in Indices |-> <<>>]
  /\ nOps = 0

ConstructCall ==
  /\ Idle /\ nOps = 0
  /\ done' = Completion("construct", 0, <<>>, NoOpt, NoOpt, Construct(cfg), <<>>, <<>>)
  /\ nOps' = 1
  /\ UNCHANGED <<cfg, dirs, closing, closed, chunks, chunkFiles, fileData, blob, streams, ops, lastPut>>

NextCtor == ConstructCall \/ Return

SpecCtor == InitCtor /\ [][NextCtor]_vars

\* SpecFirst: callers that do not wait for each other and may use the same
\* chunk index at the same time: puts of the length the store asks for, of
\* any index, at any time, and one get without options at a time
FirstPut ==
  /\ Idle
  /\ \E i \in Indices : Put(i, MakeBuf(1 + (nOps % MaxTag), ChunkLen(i)))
  /\ nOps' <= MaxFirst
FirstGet == Idle /\ NoGetRuns /\ \E i \in Indices : Get(i, NoOpt, NoOpt)

NextFirst == FirstPut \/ FirstGet \/ Step

SpecFirst == Init /\ [][NextFirst]_vars

\* SpecFault: a store with files and one caller that waits for its calls,
\* on a backend that may reject the close of a write stream, once per
\* cleanup
FaultCleanup == Settled /\ Cleanup /\ nOps' <= MaxTwice

FaultStep ==
  \/ \E key \in DOMAIN streams : Idle /\ CloseStreamFail(key)
  \/ \E c \in Slots : Idle /\ CleanupGone(c)

NextFault == TwicePut \/ TwiceGet \/ FaultCleanup \/ RaceStep \/ CleanupStep \/ FaultStep

SpecFault == InitRace /\ [][NextFault]_vars

\* SpecMap: the constructor called with a list of files of any positive
\* lengths (offsets derived), and this.chunkMap read chunk by chunk, from
\* chunk 0 to the last chunk
MapConfigs ==
  [hasFiles : {TRUE},
   lens : UNION {[1..n -> 1..MaxFileLen] : n \in 1..MaxMapFiles},
   optLength : {0}]

InitMap ==
  /\ cfg \in MapConfigs
  /\ dirs = [store |-> TRUE, cache |-> TRUE]
  /\ closing = FALSE
  /\ closed = FALSE
  /\ chunks = [i \in Indices |-> FALSE]
  /\ chunkFiles = [i \in Indices |-> Absent]
  /\ fileData = [f \in Files |-> <<>>]
  /\ blob = [f \in Files |-> [ready |-> TRUE, data |-> <<>>, fresh |-> TRUE]]
  /\ streams = <<>>
  /\ ops = <<>>
  /\ done = NoDone
  /\ lastPut = [i \in Indices |-> <<>>]
  /\ nOps = 0

\* this.chunkMap[nOps] as the constructor left it
MapRead ==
  /\ Idle /\ nOps <= LastChunkIndex(cfg)
  /\ done' = Completion("chunkMap", nOps, <<>>, NoOpt, NoOpt, "ok", ChunkMap(cfg, nOps), <<>>)
  /\ nOps' = nOps + 1
  /\ UNCHANGED <<cfg, dirs, closing, closed, chunks, chunkFiles, fileData, blob, streams, ops, lastPut>>

NextMap == MapRead \/ Return

SpecMap == InitMap /\ [][NextMap]_vars

\* SpecLate: one caller that waits for its puts, calls close() and then
\* puts again, while the close is running or after it has ended; the puts
\* made before the close are of chunks the store has, and the payloads of
\* the puts made after it (tag LateTag) differ from those made before (tag 1)
LateTag == MaxTag

LatePut ==
  /\ Settled /\ ~closing
  /\ \E i \in Indices :
       /\ cfg.hasFiles => Len(ChunkMap(cfg, i)) > 0
       /\ Put(i, MakeBuf(1, ChunkLen(i)))
  /\ nOps' <= MaxLate

LateClose == Settled /\ ~closing /\ Close /\ nOps' <= MaxLate

PutAfterClose ==
  /\ Idle /\ closing
  /\ \E i \in Indices : Put(i, MakeBuf(LateTag, ChunkLen(i)))
  /\ nOps' <= MaxLate

NextLate == LatePut \/ LateClose \/ PutAfterClose \/ ShutStep \/ CleanupStep

SpecLate == Init /\ [][NextLate]_vars

\* ------------------------------------------------------------------ claims
\* a get that was made when the last put of its index had reported success
\* (and no put of the index was running)
KnownGet == done.kind = "get" /\ done.exp # <<>> /\ done.exp # Unknown

PlainGet == done.off = NoOpt /\ done.len = NoOpt

\* C1: round trip, for every kind of store and every index: a get without
\* options that is made after a put of the index has reported success
\* returns the payload of the last such put
C1_RoundTrip ==
  KnownGet /\ PlainGet => done.res = "ok" /\ done.data = done.exp

\* in a store without files two puts were made, both of the same index, and
\* the get returned the payload of the later one
C1_Witness ==
  /\ KnownGet /\ PlainGet /\ done.res = "ok" /\ done.data = MakeBuf(2, CL)
  /\ ~cfg.hasFiles /\ nOps = 2
  /\ \A j \in Indices \ {done.index} : chunkFiles[j] = Absent

\* C2: cleanup durability: in a store with files, a get without options
\* that finds no cache artifact memoized (a cleanup discarded it after the
\* put) returns the payload last put, rebuilt from the logical files
C2_CleanupDurable ==
  cfg.hasFiles /\ KnownGet /\ PlainGet /\ done.via = "files"
    => done.res = "ok" /\ done.data = done.exp

\* a chunk that straddles both files was put, then a cleanup, a put and
\* another cleanup followed, and the chunk is returned from the files
C2_Witness ==
  /\ cfg.hasFiles /\ KnownGet /\ PlainGet /\ done.via = "files"
  /\ done.index = 0 /\ done.res = "ok" /\ done.data = lastPut[0]
  /\ lastPut[1] # <<>> /\ nOps = 4

\* C3: puts of distinct indices that run at the same time all succeed, and a
\* get made after the put of its index has reported success returns the
\* payload of that index, whatever else is running
C3_Independent ==
  /\ done.kind = "put" /\ (cfg.hasFiles => Len(ChunkMap(cfg, done.index)) > 0)
       => done.res = "ok"
  /\ KnownGet => done.res = "ok" /\ done.data = done.exp

\* a get returned its payload while a put of another index was running
C3_Witness ==
  /\ KnownGet /\ done.res = "ok" /\ done.data = done.exp
  /\ \E s \in DOMAIN ops : ops[s].kind = "put" /\ ~ops[s].settled /\ ops[s].index # done.index
  /\ \E i \in Indices : i # done.index /\ lastPut[i] # <<>>

\* the length a put of index must have, as the claim states it
ClaimedLength(index) ==
  LET total == TotalLength(cfg)
  IN IF total # Infinity /\ index = ((total + CL - 1) \div CL) - 1
       THEN (IF total % CL = 0 THEN CL ELSE total % CL)
       ELSE CL

\* C4: length enforcement: on an open store a put is rejected with the
\* length-mismatch error exactly when the length of its buffer is not the
\* length that its index must have
C4_LengthEnforced ==
  done.kind = "put" /\ done.res # "ErrClosed"
    => (done.res = "ErrLength" <=> Len(done.buf) # ClaimedLength(done.index))

\* a buffer of chunkLength was rejected for the last, shorter chunk
C4_Witness ==
  /\ done.kind = "put" /\ done.res = "ErrLength"
  /\ done.index = LastChunkIndex(cfg) /\ Len(done.buf) = CL

\* C5: a put that is rejected for its length performs no write: the cache
\* artifacts, the logical files, the memoized chunk handles and the write
\* streams are as before the call, and the call has started no task
C5_RejectedPutWritesNothing ==
  [][done'.kind = "put" /\ done'.res = "ErrLength"
       => UNCHANGED <<chunkFiles, fileData, chunks, streams, ops>>]_vars

\* a put was rejected for its length while a file had a write stream
C5_Witness ==
  /\ done.kind = "put" /\ done.res = "ErrLength"
  /\ cfg.hasFiles /\ \E key \in DOMAIN streams : streams[key].open
  /\ \E i \in Indices : chunks[i]

\* the range a get asks for, as the claims state it: an offset left out is
\* 0, a length left out is the rest of the chunk
AskedOffset == IF done.off = NoOpt THEN 0 ELSE done.off
AskedLength(chunkLen) == IF done.len = NoOpt THEN chunkLen - AskedOffset ELSE done.len

\* C6: partial read: on a store that is not closing, after a put has
\* reported success, a get of the index with 0 <= offset and
\* offset + length <= chunkLen returns the bytes offset .. offset + length of
\* the payload, from the cache artifact as from the logical files
C6_PartialRead ==
  /\ KnownGet /\ ~closing
  /\ AskedOffset >= 0
  /\ AskedLength(Len(done.exp)) >= 0
  /\ AskedOffset + AskedLength(Len(done.exp)) <= Len(done.exp)
  => /\ done.res = "ok"
     /\ done.data = SubSeq(done.exp, AskedOffset + 1,
                           AskedOffset + AskedLength(Len(done.exp)))

\* C7: a get with a negative offset, with an offset greater than chunkLen or
\* with offset + length greater than chunkLen is rejected with the
\* out-of-range error and returns no bytes
C7_OutOfRange ==
  /\ done.kind = "get" /\ done.res # "ErrClosed"
  /\ \/ AskedOffset < 0
     \/ AskedOffset > ChunkLen(done.index)
     \/ done.len # NoOpt /\ AskedOffset + done.len > ChunkLen(done.index)
  => done.res = "ErrRange" /\ done.data = <<>>

\* C8: a get without options of an index of which no put has reported
\* success fails and returns no bytes, whatever other indices were put and
\* whatever cleanups ran
C8_NotFound ==
  done.kind = "get" /\ PlainGet /\ lastPut[done.index] = <<>>
    => done.res # "ok" /\ done.data = <<>>

\* the files are at rest: no write stream is left and no put is running
Flushed ==
  /\ DOMAIN streams = {}
  /\ \A s \in DOMAIN ops : ops[s].kind # "put"

\* the byte that position p of file f holds in the concatenation of the
\* files, when the chunk it lies in has been put
ClaimedByte(f, p) ==
  LET g == FileOffset(cfg.lens, f) + p - 1
      i == g \div CL
  IN IF i \in Indices /\ lastPut[i] # <<>> THEN lastPut[i][g - i * CL + 1] ELSE Nul

\* C9: multi-file write mapping: once the write streams are flushed, the
\* concatenated logical files hold the payload of every put that reported
\* success at the positions of its chunk, also across file boundaries, and
\* nothing else: the other bytes are padding
C9_FileMapping ==
  cfg.hasFiles /\ Flushed =>
    /\ \A f \in Files : \A p \in 1..Len(fileData[f]) :
         p <= cfg.lens[f] /\ fileData[f][p] = ClaimedByte(f, p)
    /\ \A i \in Indices : \A k \in 1..Len(lastPut[i]) :
         \E f \in Files :
           /\ i * CL + k - 1 - FileOffset(cfg.lens, f) \in 0..(Len(fileData[f]) - 1)
           /\ fileData[f][i * CL + k - FileOffset(cfg.lens, f)] = lastPut[i][k]

\* the chunk that straddles both files and the last chunk were put and
\* flushed
C9_Witness ==
  /\ cfg.hasFiles /\ Flushed
  /\ lastPut[0] # <<>> /\ lastPut[1] # <<>>
  /\ \A f \in Files : Len(fileData[f]) = cfg.lens[f]

\* C10: once close() has completed, every put and every get fails with the
\* 'closed' error, returns no bytes, starts nothing and changes no stored data
C10_ClosedRejects ==
  /\ [](closed /\ done.kind \in {"put", "get"} => done.res = "ErrClosed" /\ done.data = <<>>)
  /\ [][closed /\ done'.kind \in {"put", "get"}
          => UNCHANGED <<chunkFiles, fileData, chunks, streams, blob, ops>>]_vars

\* a get of a chunk that had been put was rejected after close()
C10_Witness ==
  /\ closed /\ done.kind = "get" /\ done.res = "ErrClosed"
  /\ lastPut[done.index] # <<>>

CloseTasks(table) == {c \in DOMAIN table : table[c].kind = "close"}

\* the step ends the close call that made the store Closing (or is that
\* call itself, when the store was open)
FirstCloseEnds == ~closing \/ \E c \in CloseTasks(ops) : c \notin DOMAIN ops'

\* C11: a close() made after an earlier close() has started, while the store
\* is Closing or Closed, reports the 'already closed' error to its callback;
\* it does not run the close transition again (there is never a second
\* close running) and leaves all state, the running first close included,
\* as it was
C11_DoubleClose ==
  /\ [](Cardinality(CloseTasks(ops)) <= 1)
  /\ [][done'.kind = "close" /\ ~FirstCloseEnds
          => /\ done'.res = "ErrAlreadyClosed"
             /\ UNCHANGED <<dirs, closing, closed, chunks, chunkFiles, fileData, blob, streams, ops>>]_vars

\* a second close is refused while the first is still closing streams
C11_Witness ==
  /\ done.kind = "close" /\ done.res = "ErrAlreadyClosed"
  /\ closing /\ ~closed
  /\ \E key \in DOMAIN streams : streams[key].open

\* C12: when destroy() on an open store reports success, the directory of
\* the store, rootDir/<name>, no longer exists, whatever was put before; and
\* nothing brings it back
C12_DestroyRemoves ==
  /\ [](done.kind = "destroy" /\ done.res = "ok" => ~dirs.store)
  /\ [][~dirs.store => ~dirs.store']_vars

\* destroy reports success on a store that a chunk was put in
C12_Witness ==
  /\ done.kind = "destroy" /\ done.res = "ok"
  /\ \E i \in Indices : lastPut[i] # <<>>
  /\ ~dirs.store

\* C13: for a store with files, once destroy() has reported success the
\* cache directory of the store, chunks/<name>, no longer exists
C13_DestroyRemovesCache ==
  cfg.hasFiles /\ done.kind = "destroy" /\ done.res = "ok" => ~dirs.cache

\* C14: the first close() of a store, empty or not, also with puts still
\* running that nobody waits for, ends with its callback called with no
\* error and the store Closed: once the close call has ended the store is
\* Closed, and what the call reports is success
C14_CloseTerminates ==
  /\ closing /\ CloseTasks(ops) = {} => closed
  /\ done.kind = "close" /\ done.res # "ErrAlreadyClosed" => done.res = "ok" /\ closed

\* the range a get asks for is empty: length 0 at an offset within the
\* chunk, or the default length at the offset chunkLen
EmptyRange ==
  \/ done.len = 0 /\ AskedOffset >= 0 /\ AskedOffset <= ChunkLen(done.index)
  \/ done.len = NoOpt /\ AskedOffset = ChunkLen(done.index)

\* C15: on a store that is not closed, a get whose requested range is empty
\* returns an empty byte array, and does so without any storage access (it
\* completes before its first await), whether or not the chunk was written
C15_ZeroLength ==
  done.kind = "get" /\ done.res # "ErrClosed" /\ EmptyRange
    => done.res = "ok" /\ done.data = <<>> /\ done.via = "none"

\* some logical file holds a byte of the chunk at index
Overlapped(index) ==
  \E f \in Files : \E p \in 1..cfg.lens[f] :
     (Sum(SubSeq(cfg.lens, 1, f - 1)) + p - 1) \div CL = index

\* C16: for an open store with files, a put of a correctly sized payload on
\* an index that no logical file overlaps is rejected with the error
\* 'No files matching the request range'
C16_NoFilesForChunk ==
  /\ cfg.hasFiles /\ ~closing
  /\ done.kind = "put" /\ Len(done.buf) = ClaimedLength(done.index)
  /\ ~Overlapped(done.index)
  => done.res = "ErrNoFiles"

\* such a put is rejected on a store that holds data of other chunks
C16_Witness ==
  /\ cfg.hasFiles /\ ~closing
  /\ done.kind = "put" /\ Len(done.buf) = ClaimedLength(done.index)
  /\ ~Overlapped(done.index)
  /\ done.res = "ErrNoFiles"
  /\ \E i \in Indices : lastPut[i] # <<>>

\* the options have a file without path or without length, or file lengths
\* that do not add up to the length that was given
BadFiles(raw) ==
  /\ raw.filesGiven
  /\ \/ \E k \in DOMAIN raw.files : ~raw.files[k].path \/ raw.files[k].length = Undefined
     \/ /\ raw.length # Undefined
        /\ raw.length # Sum([k \in DOMAIN raw.files |-> raw.files[k].length])

\* C17: for every configuration whose files list has a file without path or
\* without length, or whose file lengths do not add up to an explicitly
\* given total length, the constructor fails and returns no store
C17_ConfigErrors ==
  done.kind = "construct" /\ BadFiles(cfg) => done.res # "ok"

C19_OneStream ==
  \A f \in Files :
     Cardinality({key \in DOMAIN streams : key[2] = f /\ streams[key].open}) <= 1

\* C20: cleanup() is idempotent and re-entrant: a cleanup() called after an
\* earlier one has resolved, or while earlier ones are still running,
\* resolves without error; once no call is running after it, no file has an
\* open write stream, the cache directory exists and is empty, and a get of
\* a stored chunk returns the bytes that were put
C20_CleanupIdempotent ==
  /\ done.kind = "cleanup" =>
       /\ done.res = "ok"
       /\ ops = <<>> => /\ streams = <<>>
                        /\ dirs.cache
                        /\ \A i \in Indices : chunkFiles[i] = Absent
  /\ done.kind = "get" /\ lastPut[done.index] # <<>> =>
       done.res = "ok" /\ done.data = lastPut[done.index]

\* the snapshot of file f is one of the file as it is now: it was taken, or
\* will be taken, after the last commit to the file
SnapshotCurrent(f) ==
  /\ blob[f].fresh
  /\ blob[f].ready => blob[f].data = fileData[f]

\* C21: when cleanup() resolves on an open store with files and nothing else
\* is running, no file has a write stream, no chunk handle is memoized, the
\* cache directory exists and has no entries, and the snapshot of each file
\* is one of the file after its stream was closed: the files, and so the
\* snapshots, hold every byte of every put that reported success
C21_CleanupPost ==
  cfg.hasFiles /\ ~closed /\ done.kind = "cleanup" /\ done.res = "ok" /\ ops = <<>>
    => /\ streams = <<>>
       /\ \A i \in Indices : ~chunks[i] /\ chunkFiles[i] = Absent
       /\ dirs.cache
       /\ \A f \in Files : SnapshotCurrent(f)
       /\ \A i \in Indices : \A k \in 1..Len(lastPut[i]) :
            \E f \in Files :
              /\ i * CL + k - 1 - FileOffset(cfg.lens, f) \in 0..(Len(fileData[f]) - 1)
              /\ fileData[f][i * CL + k - FileOffset(cfg.lens, f)] = lastPut[i][k]

\* a cleanup resolved after both chunks of the files had been put: streams
\* were open on both files and both chunks had cache entries
C21_Witness ==
  /\ cfg.hasFiles /\ ~closed /\ done.kind = "cleanup" /\ done.res = "ok" /\ ops = <<>>
  /\ lastPut[0] # <<>> /\ lastPut[1] # <<>>
  /\ \A f \in Files : Len(fileData[f]) = cfg.lens[f]
  /\ streams = <<>>

\* the range a get asks for lies within the chunk
ValidRange ==
  /\ AskedOffset >= 0
  /\ done.len = NoOpt \/ done.len >= 0
  /\ AskedOffset + AskedLength(ChunkLen(done.index)) <= ChunkLen(done.index)

\* C22: read-path equivalence: in a store with files, a get with a valid
\* offset and length that is served from the logical files (no cache artifact
\* is memoized) for a chunk that was put returns what the branch that reads
\* the cache artifact returns for the same arguments when the artifact holds
\* the chunk: the same bytes, or the same error when they are none
C22_ReadPaths ==
  cfg.hasFiles /\ KnownGet /\ done.via = "files" /\ ValidRange
    => LET viaCache == CacheSlice(done.exp, done.index, done.off, done.len)
       IN /\ done.data = viaCache
          /\ done.res = IF Len(viaCache) = 0 THEN "ErrNotFound" ELSE "ok"

\* a range that crosses the boundary of the two files was read from them,
\* clipped at both ends
C22_Witness ==
  /\ cfg.hasFiles /\ KnownGet /\ done.via = "files" /\ ValidRange
  /\ done.index = 0 /\ done.off = 1 /\ done.len = 2
  /\ done.res = "ok" /\ done.data = SubSeq(done.exp, 2, 3)

\* the length of chunk c of a store whose files add up to total bytes
EffectiveChunkLength(c, total) == IF total - c * CL < CL THEN total - c * CL ELSE CL

\* the (chunk, entry) pairs of chunkMap that name file f and hold its byte p
\* (counted from 0)
EntriesOfByte(f, p) ==
  {ce \in (0..LastChunkIndex(cfg)) \X (1..Len(cfg.lens)) :
     /\ ce[2] <= Len(ChunkMap(cfg, ce[1]))
     /\ LET e == ChunkMap(cfg, ce[1])[ce[2]]
        IN e.file = f /\ e.offset <= p /\ p < e.offset + (e.to - e.from)}

\* C23: chunkMap tiling, for files of positive lengths with derived offsets:
\* the entries of chunkMap[c], for every chunk c from 0 to the last, in list
\* order, have from < to, start at 0, each begins where the one before ends,
\* and the last ends at the length of the chunk; and every byte of every
\* file lies in exactly one entry that names the file, over all chunks
C23_Tiling ==
  done.kind = "chunkMap" =>
    LET E == done.data
        c == done.index
    IN /\ Len(E) >= 1
       /\ \A k \in 1..Len(E) : E[k].from < E[k].to
       /\ E[1].from = 0
       /\ \A k \in 1..(Len(E) - 1) : E[k].to = E[k + 1].from
       /\ E[Len(E)].to = EffectiveChunkLength(c, Sum(cfg.lens))
       /\ \A f \in Files : \A p \in 0..(cfg.lens[f] - 1) :
            Cardinality(EntriesOfByte(f, p)) = 1

\* a chunk that three files share, the middle one lying wholly inside it
C23_Witness ==
  /\ done.kind = "chunkMap" /\ Len(done.data) = 3
  /\ done.data[2].to - done.data[2].from = cfg.lens[done.data[2].file]
  /\ done.index = 1

\* the step calls the callback of the running put o
PutCallback(o) ==
  /\ o \in DOMAIN ops /\ ops[o].kind = "put" /\ ~ops[o].settled
  /\ o \notin DOMAIN ops' \/ ops'[o].settled

CloseCleanupRuns ==
  \E c \in DOMAIN ops : ops[c].kind \in {"close", "destroy"} /\ ops[c].pc \in {"streams", "wait"}

\* C25: close ordering, for a store with files: chunkMap and directoryMap
\* are released only once the cleanup that close() runs has ended, so while
\* that cleanup runs (write streams still to be closed) they are in place
C25_CloseOrder ==
  cfg.hasFiles /\ CloseCleanupRuns => ~MappingReleased

\* C26: close failures propagate: when the cleanup that close() runs fails
\* (here: a cache entry cannot be removed), the close call ends with its
\* callback called with the error; it never ends with a rejected promise
\* and the callback left uncalled
C26_ClosePropagates ==
  done.kind = "close" => done.res \in {"ok", "ErrAlreadyClosed", "ErrIO"}

DestroyTasks(table) == {c \in DOMAIN table : table[c].kind = "destroy"}

\* C27: a destroy() made on a store on which close() or destroy() was called
\* before does not start (no destroy ever starts on a store that is
\* Closing), reports the 'already closed' error and changes nothing, the
\* directory of the store included; and the directory of the store is
\* removed only in the step that ends a destroy whose close has succeeded
\* and that reports success
C27_DestroyAfterClose ==
  /\ [][\A c \in DestroyTasks(ops') \ DestroyTasks(ops) : ~closing]_vars
  /\ [][done'.kind = "destroy" /\ DestroyTasks(ops) \subseteq DestroyTasks(ops')
          => /\ closing /\ done'.res = "ErrAlreadyClosed"
             /\ UNCHANGED <<dirs, closing, closed, chunks, chunkFiles, fileData, blob, streams, ops>>]_vars
  /\ [][dirs.store /\ ~dirs'.store
          => /\ closed /\ done'.kind = "destroy" /\ done'.res = "ok"
             /\ \E c \in DestroyTasks(ops) : ops[c].pc = "rmroot" /\ c \notin DOMAIN ops']_vars

\* a destroy was refused on a store that was closed after a put: the
\* directory of the store is still there
C27_Witness ==
  /\ done.kind = "destroy" /\ done.res = "ErrAlreadyClosed"
  /\ closed /\ dirs.store
  /\ \E i \in Indices : lastPut[i] # <<>>

\* the calls that found no handle memoized for index and are on their way
\* to ask the cache directory for one (getFileHandle with create)
HandleRequests(index) ==
  {o \in DOMAIN ops :
     /\ ops[o].index = index
     /\ \/ ops[o].kind = "put" /\ ops[o].sub = "handle"
        \/ ops[o].kind = "get" /\ ops[o].pc = "handle"}

\* C28: handle cache convergence for chunk handles: when several calls make
\* the first access to one chunk index at the same time, one of them only
\* asks the backend for the handle
C28_OneRequest ==
  \A i \in Indices : Cardinality(HandleRequests(i)) <= 1

\* the streams that cleanup call c took off their files and has not closed
TakenStreams(c) == {key \in DOMAIN streams : key[1] = c /\ streams[key].open}

\* C29: best-effort stream closing: a cleanup() leaves no file with a stream
\* reference; once the close of one of the streams it took has failed,
\* every other stream it took can still be closed; and streams that a
\* cleanup took go one at a time, each by its own close: the failure of one
\* close drops no other stream
C29_BestEffort ==
  /\ [](\A c \in DOMAIN ops :
          ops[c].kind = "cleanup" /\ ops[c].pc = "streams" /\ ops[c].sub = "clear"
            => \A f \in Files : <<0, f>> \notin DOMAIN streams)
  /\ [](\A c \in DOMAIN ops : ops[c].kind = "cleanup" /\ ops[c].pc = "thrown"
          => \A key \in TakenStreams(c) : ENABLED CloseStream(key))
  /\ [][Cardinality({key \in DOMAIN streams : key[1] # 0 /\ key \notin DOMAIN streams'}) <= 1]_vars

\* the close of the stream of the first file has failed, the stream of the
\* second file, taken by the same cleanup, was closed after that and its
\* bytes are in the file
C29_Witness ==
  /\ lastPut[0] # <<>> /\ streams = <<>>
  /\ fileData[1] = <<>> /\ fileData[2] = <<lastPut[0][3]>>
  /\ \E c \in DOMAIN ops : ops[c].kind = "cleanup" /\ ops[c].pc = "thrown"

\* C30: result length: a get that reports success returns exactly the number
\* of bytes that was asked for, the length when one is given and the rest
\* of the chunk from the offset otherwise, whether it was served from the
\* cache artifact or from the logical files
C30_ResultLength ==
  done.kind = "get" /\ done.res = "ok"
    => Len(done.data) = AskedLength(ChunkLen(done.index))

\* what file f holds once its write stream is closed: the swap file of the
\* stream when it has one
FileContent(f) ==
  IF <<0, f>> \in DOMAIN streams THEN streams[<<0, f>>].swap ELSE fileData[f]

\* C31: cache/file coherence under puts of one index, for a store with
\* files: once the puts have ended (all with success), the cache artifact
\* of a chunk and the logical files hold the same bytes of the chunk, so
\* that a get returns the same before and after a cleanup
C31_Coherent ==
  cfg.hasFiles /\ ops = <<>> =>
    \A i \in Indices :
      chunkFiles[i] # Absent /\ lastPut[i] # <<>> =>
        \A k \in 1..Len(ChunkMap(cfg, i)) :
          LET e == ChunkMap(cfg, i)[k]
          IN Slice(FileContent(e.file), e.offset, e.offset + e.to - e.from)
               = Slice(chunkFiles[i], e.from, e.to)

\* C32: a put that fails with 'No files matching the request range' stores
\* nothing: on a store with files, an index that no file covers has no
\* cache artifact and no memoized chunk handle, and a get of it never
\* returns bytes
C32_RejectedPutStoresNothing ==
  cfg.hasFiles /\ ~closing =>
    \A i \in Indices :
      Len(ChunkMap(cfg, i)) = 0 =>
        /\ chunkFiles[i] = Absent
        /\ ~chunks[i]
        /\ (done.kind = "get" /\ done.index = i => done.data = <<>>)

\* the bytes of a payload put after close() was called
LateBytes(content) ==
  \E k \in 1..Len(content) : content[k] > LateTag * 10

\* C33: no put takes effect once close() has been called: a put issued
\* while the store is Closing or Closed never reports success, its bytes
\* reach no cache artifact and no logical file, and once the close has
\* ended and nothing runs, the store with files has no cache artifact
C33_NoPutAfterClose ==
  /\ done.kind = "put" /\ LateBytes(done.buf) => done.res # "ok"
  /\ \A i \in Indices : chunkFiles[i] # Absent => ~LateBytes(chunkFiles[i])
  /\ \A f \in Files : ~LateBytes(FileContent(f)) /\ ~LateBytes(fileData[f])
  /\ cfg.hasFiles /\ closed /\ ops = <<>> =>
       \A i \in Indices : chunkFiles[i] = Absent

\* a get is called, or a running get takes one of its steps
GetStep ==
  \/ \E i \in Indices, off \in Offsets, len \in Lengths : Get(i, off, len)
  \/ \E o \in Slots : GetHandle(o) \/ GetFile(o) \/ GetRead(o) \/ GetBlobs(o)

\* C34: get is read-only: no step of a get, successful or failed, creates,
\* modifies or deletes a cache artifact or a logical file
C34_GetReadOnly ==
  [][GetStep => UNCHANGED <<chunkFiles, fileData, dirs>>]_vars
====
